---- MODULE Spec2Model ----
(***************************************************************************)
(* Materialized-path tree store of the backend: the category service       *)
(* (app/services/category.py) and the menu service (app/services/menu.py). *)
(* A table is a sequence of rows, the row at index i is the row with       *)
(* primary key i (BigInteger autoincrement).  Paths are strings, modelled  *)
(* as sequences of one-character strings.                                  *)
(***************************************************************************)
EXTENDS Integers, Sequences, FiniteSets, TLC

\* ------------------------------------------------------------------ bounds
MaxNodes == 3          \* rows per table
MaxPosts == 1          \* posts attached to one category
MaxInflight == 2       \* create_category requests between check and insert
MaxCalls == 7          \* requests served in one behaviour
MaxChain == 6          \* rows per table when only create calls are made
MaxItems == 2          \* items of one reorder_menus request
MaxOrder == 1          \* largest sort order of a request
MaxProbe == 4          \* requests served in one short behaviour

\* ------------------------------------------------------- program constants
MaxParentDepth == 4    \* "if parent.depth >= 4" (5 levels)

None == -1             \* Python None / SQL NULL for an Optional[int]

VARIABLES svc, categories, menus, inflight, last, calls

vars == <<svc, categories, menus, inflight, last, calls>>

\* ---------------------------------------------------------------- strings
Digits == <<"0", "1", "2", "3", "4", "5", "6", "7", "8", "9">>

RECURSIVE IntStr(_)
\* str(n) of a non-negative integer, as in the f-strings that build paths
IntStr(n) ==
    IF n < 10 THEN <<Digits[n + 1]>>
    ELSE IntStr(n \div 10) \o <<Digits[(n % 10) + 1]>>

\* str.startswith
StartsWith(s, prefix) ==
    /\ Len(prefix) <= Len(s)
    /\ SubSeq(s, 1, Len(prefix)) = prefix

\* str.count('/')
CountSlash(s) == Cardinality({i \in 1..Len(s) : s[i] = "/"})

\* SQL: column LIKE '<prefix>%'  (the prefix holds digits and '/' only)
Like(s, prefix) == StartsWith(s, prefix)

DigitVal(c) == CHOOSE d \in 0..9 : Digits[d + 1] = c

RECURSIVE SplitIds(_, _, _)
\* the ids of a path string: split on '/', drop the empty pieces, int() each
SplitIds(s, cur, has) ==
    IF s = <<>> THEN (IF has THEN <<cur>> ELSE <<>>)
    ELSE IF Head(s) = "/"
         THEN (IF has THEN <<cur>> ELSE <<>>) \o SplitIds(Tail(s), 0, FALSE)
         ELSE SplitIds(Tail(s), cur * 10 + DigitVal(Head(s)), TRUE)

DecodePath(s) == SplitIds(s, 0, FALSE)

\* "if x:" on an Optional[int]
Truthy(x) == x # None /\ x # 0

\* every order in which a query without ORDER BY may return the rows S
Orders(S) ==
    {f \in [1..Cardinality(S) -> S] : \A i, j \in 1..Cardinality(S) : f[i] = f[j] => i = j}

\* every order in which a query with ORDER BY may return the rows S: Leq is
\* the comparison of the ORDER BY columns, rows it holds equal come in any order
SortedOrders(S, Leq(_, _)) ==
    {f \in Orders(S) : \A i, j \in 1..Cardinality(S) : i < j => Leq(f[i], f[j])}

\* the rows of the list that satisfy Keep, in the order of the list
Filter(list, Keep(_)) == SelectSeq(list, Keep)

\* byte order of the characters of a path
CharRank(c) == IF c = "/" THEN 0 ELSE DigitVal(c) + 1

RECURSIVE StrLeq(_, _)
\* a <= b for strings, character by character
StrLeq(a, b) ==
    IF a = <<>> THEN TRUE
    ELSE IF b = <<>> THEN FALSE
    ELSE IF Head(a) # Head(b) THEN CharRank(Head(a)) < CharRank(Head(b))
    ELSE StrLeq(Tail(a), Tail(b))

\* the category names of the requests, in alphabetical order
Names == <<"a", "b">>

NameRank(name) == CHOOSE k \in 1..Len(Names) : Names[k] = name

\* a forest as a query returns it: the list of roots and, for every row, its
\* list of children
Forest(roots, children) == [roots |-> roots, children |-> children]

RECURSIVE PreOrder(_, _)
\* the nodes of the forest below a list of siblings, parent before children
PreOrder(children, level) ==
    IF level = <<>> THEN <<>>
    ELSE <<Head(level)>> \o PreOrder(children, children[Head(level)])
                        \o PreOrder(children, Tail(level))

\* ------------------------------------------------------------ the outcome
\* the ids of the rows a call wrote or inserted
Changed(before, after) ==
    {i \in DOMAIN after : i \notin DOMAIN before \/ before[i] # after[i]}

\* what the last request was, its status, and the rows it changed
Outcome(op, id, arg, status, before, after) ==
    [op |-> op, id |-> id, arg |-> arg, status |-> status,
     changed |-> Changed(before, after)]

\* one more request is served
Serve == calls < MaxCalls /\ calls' = calls + 1

\* =========================================================== menu service
\* ForeignKey("menus.id") on parent_id
MenuFkOk(db, parent_id) == parent_id = None \/ parent_id \in DOMAIN db

\* the menus table without its unique constraint
uk_tenant_menu_code_absent(db, tenant_id, menu_code) == TRUE

\* UniqueConstraint("tenant_id", "menu_code", name="uk_tenant_menu_code")
uk_tenant_menu_code(db, tenant_id, menu_code) ==
    ~\E i \in DOMAIN db : db[i].tenant_id = tenant_id /\ db[i].menu_code = menu_code

\* a lookup that also finds soft-deleted menus
MenuLookup_deleted(db, menu_id, tenant_id) ==
    IF menu_id \in DOMAIN db /\ db[menu_id].tenant_id = tenant_id THEN menu_id ELSE None

\* the row of get_menu_by_id / validate_parent_exists, None when the query is empty
MenuLookup(db, menu_id, tenant_id) ==
    IF /\ menu_id \in DOMAIN db
       /\ db[menu_id].tenant_id = tenant_id
       /\ ~db[menu_id].is_deleted
    THEN menu_id ELSE None

get_menu_by_id(db, menu_id, tenant_id) == MenuLookup(db, menu_id, tenant_id)

validate_parent_exists(db, parent_id, tenant_id) == MenuLookup(db, parent_id, tenant_id)

RECURSIVE CircularWalk(_, _, _, _)
\* the while loop of validate_no_circular_reference; FALSE when it raises
CircularWalk(db, menu_id, current_id, visited) ==
    IF current_id = None THEN TRUE
    ELSE IF current_id \in visited THEN TRUE
    ELSE IF current_id = menu_id THEN FALSE
    ELSE IF ~(current_id \in DOMAIN db /\ ~db[current_id].is_deleted) THEN TRUE
    ELSE CircularWalk(db, menu_id, db[current_id].parent_id, visited \cup {current_id})

\* TRUE when the validation passes, FALSE when it raises HTTP 400
validate_no_circular_reference(db, menu_id, new_parent_id) ==
    IF new_parent_id = None THEN TRUE
    ELSE IF menu_id = new_parent_id THEN FALSE
    ELSE CircularWalk(db, menu_id, new_parent_id, {})

\* menu_id = None stands for the call without a menu id
calculate_depth_and_path(db, parent_id, menu_id) ==
    LET own == IF menu_id # None THEN <<"/">> \o IntStr(menu_id) ELSE <<"/">>
    IN  IF parent_id = None THEN [depth |-> 0, path |-> own]
        ELSE IF ~(parent_id \in DOMAIN db /\ ~db[parent_id].is_deleted)
        THEN [depth |-> 0, path |-> own]
        ELSE LET parent == db[parent_id]
                 parent_path == IF parent.path # <<>> THEN parent.path
                                ELSE <<"/">> \o IntStr(parent_id)
             IN  [depth |-> parent.depth + 1,
                  path  |-> IF menu_id # None
                            THEN parent_path \o <<"/">> \o IntStr(menu_id)
                            ELSE parent_path]

\* result of a service call: the status and the committed table
Result(status, db) == [status |-> status, db |-> db]

\* create_menu without the check of the parent's depth
create_menu_no_ceiling(db, tenant_id, data) ==
    LET parent == validate_parent_exists(db, data.parent_id, tenant_id)
        depth  == calculate_depth_and_path(db, data.parent_id, None).depth
        id     == Len(db) + 1
        row    == [tenant_id |-> tenant_id, menu_type |-> data.menu_type,
                   menu_code |-> data.menu_code, parent_id |-> data.parent_id,
                   depth |-> depth, path |-> <<>>,
                   display_order |-> data.display_order,
                   is_active |-> data.is_active, is_deleted |-> FALSE]
        added  == Append(db, row)
        path   == calculate_depth_and_path(added, data.parent_id, id).path
    IN  IF Truthy(data.parent_id) /\ parent = None THEN Result("parent_not_found", db)
        ELSE IF ~uk_tenant_menu_code(db, tenant_id, data.menu_code) THEN Result("conflict", db)
        ELSE IF ~MenuFkOk(db, data.parent_id) THEN Result("constraint", db)
        ELSE Result("ok", [added EXCEPT ![id].path = path])

create_menu(db, tenant_id, data) ==
    LET parent == validate_parent_exists(db, data.parent_id, tenant_id)
        depth  == calculate_depth_and_path(db, data.parent_id, None).depth
        id     == Len(db) + 1
        row    == [tenant_id |-> tenant_id, menu_type |-> data.menu_type,
                   menu_code |-> data.menu_code, parent_id |-> data.parent_id,
                   depth |-> depth, path |-> <<>>,
                   display_order |-> data.display_order,
                   is_active |-> data.is_active, is_deleted |-> FALSE]
        added  == Append(db, row)
        path   == calculate_depth_and_path(added, data.parent_id, id).path
    IN  IF Truthy(data.parent_id) /\ parent = None THEN Result("parent_not_found", db)
        ELSE IF Truthy(data.parent_id) /\ db[parent].depth >= MaxParentDepth
        THEN Result("depth_exceeded", db)
        ELSE IF ~uk_tenant_menu_code(db, tenant_id, data.menu_code) THEN Result("conflict", db)
        ELSE IF ~MenuFkOk(db, data.parent_id) THEN Result("constraint", db)
        ELSE Result("ok", [added EXCEPT ![id].path = path])

\* a setattr loop that also clears the parent
MenuSetAttrs_rooting(row, data) == [row EXCEPT !.parent_id = None]

\* setattr(menu, field, value) for the fields of model_dump(exclude_unset=True)
MenuSetAttrs(row, data) ==
    [row EXCEPT
        !.parent_id     = IF "parent_id" \in data.fields THEN data.parent_id ELSE @,
        !.display_order = IF "display_order" \in data.fields THEN data.display_order ELSE @,
        !.is_active     = IF "is_active" \in data.fields THEN data.is_active ELSE @,
        !.menu_type     = IF "menu_type" \in data.fields THEN data.menu_type ELSE @]

update_menu(db, menu_id, tenant_id, data) ==
    LET menu     == get_menu_by_id(db, menu_id, tenant_id)
        changing == data.parent_id # None /\ data.parent_id # db[menu].parent_id
        parent   == validate_parent_exists(db, data.parent_id, tenant_id)
        dp       == calculate_depth_and_path(db, data.parent_id, menu_id)
        moved    == IF changing
                    THEN [db EXCEPT ![menu_id].depth = dp.depth, ![menu_id].path = dp.path]
                    ELSE db
        updated  == [moved EXCEPT ![menu_id] = MenuSetAttrs(@, data)]
    IN  IF menu = None THEN Result("not_found", db)
        ELSE IF changing /\ ~validate_no_circular_reference(db, menu_id, data.parent_id)
        THEN Result("invalid", db)
        ELSE IF changing /\ Truthy(data.parent_id) /\ parent = None
        THEN Result("parent_not_found", db)
        ELSE IF changing /\ Truthy(data.parent_id) /\ db[parent].depth >= MaxParentDepth
        THEN Result("depth_exceeded", db)
        ELSE IF ~MenuFkOk(updated, updated[menu_id].parent_id) THEN Result("constraint", db)
        ELSE Result("ok", updated)

\* the rows of: tenant_id == tenant_id, path LIKE '<path>/%', is_deleted == False
MenuPathDescendants(db, tenant_id, path) ==
    {i \in DOMAIN db : /\ db[i].tenant_id = tenant_id
                       /\ Like(db[i].path, path \o <<"/">>)
                       /\ ~db[i].is_deleted}

\* delete_menu without the loop over the descendants
delete_menu_alone(db, menu_id, tenant_id) ==
    IF get_menu_by_id(db, menu_id, tenant_id) = None THEN Result("not_found", db)
    ELSE Result("ok", [db EXCEPT ![menu_id].is_deleted = TRUE, ![menu_id].is_active = FALSE])

delete_menu(db, menu_id, tenant_id) ==
    LET menu        == get_menu_by_id(db, menu_id, tenant_id)
        descendants == MenuPathDescendants(db, tenant_id, db[menu].path)
    IN  IF menu = None THEN Result("not_found", db)
        ELSE Result("ok",
                 [i \in DOMAIN db |->
                     IF i = menu_id \/ i \in descendants
                     THEN [db[i] EXCEPT !.is_deleted = TRUE, !.is_active = FALSE]
                     ELSE db[i]])

\* menu_type=None of a query: no filter on the menu type
NoMenuType == ""

\* the rows of the query of get_menu_tree
MenuTreeFetched(db, tenant_id, menu_type) ==
    {i \in DOMAIN db : /\ db[i].tenant_id = tenant_id
                       /\ ~db[i].is_deleted
                       /\ db[i].is_active
                       /\ (menu_type # NoMenuType => db[i].menu_type = menu_type)}

\* ORDER BY display_order, id
MenuOrderLeq(db, a, b) ==
    \/ db[a].display_order < db[b].display_order
    \/ db[a].display_order = db[b].display_order /\ a <= b

\* Menu.children, the backref of Menu.parent: read for the first time it is
\* loaded with "SELECT ... WHERE parent_id = :id", every row under the menu
\* (deleted and inactive ones too) in an order the statement does not fix
MenuChildrenLoads(db) ==
    {loaded \in [DOMAIN db -> UNION {Orders({c \in DOMAIN db : db[c].parent_id = p}) :
                                        p \in DOMAIN db}] :
        \A p \in DOMAIN db : loaded[p] \in Orders({c \in DOMAIN db : db[c].parent_id = p})}

\* loaded: what the first read of .children loads for each menu.
\* hasattr(parent, 'children') is true of every Menu and performs that load;
\* "parent.children.append(menu)" then adds the menu to the loaded list.
get_menu_tree(db, tenant_id, menu_type, loaded) ==
    LET fetched   == MenuTreeFetched(db, tenant_id, menu_type)
        Leq(a, b) == MenuOrderLeq(db, a, b)
        all_menus == CHOOSE f \in SortedOrders(fetched, Leq) : TRUE
        IsRoot(m) == db[m].parent_id = None
        children  == [p \in DOMAIN db |->
                         LET Under(m) == db[m].parent_id = p
                         IN  IF p \in fetched
                             THEN loaded[p] \o Filter(all_menus, Under)
                             ELSE loaded[p]]
    IN  Forest(Filter(all_menus, IsRoot), children)

\* a reorder_menus that gives every menu of the tenant the order of an item
reorder_menus_all(db, tenant_id, items) ==
    IF \E k \in 1..Len(items) : get_menu_by_id(db, items[k].menu_id, tenant_id) = None
    THEN Result("not_found", db)
    ELSE Result("ok", [i \in DOMAIN db |->
                         IF db[i].tenant_id = tenant_id
                         THEN [db[i] EXCEPT !.display_order = items[Len(items)].new_order]
                         ELSE db[i]])

RECURSIVE reorder_menus(_, _, _)
\* "for item in reorder_data.items", one commit after the loop; the first
\* item whose menu is not found raises and the session is rolled back
reorder_menus(db, tenant_id, items) ==
    IF items = <<>> THEN Result("ok", db)
    ELSE LET item == Head(items)
             menu == get_menu_by_id(db, item.menu_id, tenant_id)
             rest == reorder_menus(
                         [db EXCEPT ![item.menu_id].display_order = item.new_order],
                         tenant_id, Tail(items))
         IN  IF menu = None THEN Result("not_found", db)
             ELSE rest

\* the menus a reorder_menus request names
ListedMenus(items) == {items[k].menu_id : k \in 1..Len(items)}

\* the list reorder_menus returns: the menu of every item, in the order of the items
updated_menus(items) == [k \in 1..Len(items) |-> items[k].menu_id]

RECURSIVE bulk_delete_menus(_, _, _, _)
\* "for menu_id in menu_ids": delete_menu commits on its own; its
\* HTTPException is caught and the loop goes on with the next id
bulk_delete_menus(db, menu_ids, tenant_id, deleted_count) ==
    IF menu_ids = <<>> THEN [status |-> "ok", db |-> db, deleted_count |-> deleted_count]
    ELSE LET r == delete_menu(db, Head(menu_ids), tenant_id)
         IN  IF r.status = "ok"
             THEN bulk_delete_menus(r.db, Tail(menu_ids), tenant_id, deleted_count + 1)
             ELSE bulk_delete_menus(db, Tail(menu_ids), tenant_id, deleted_count)

RECURSIVE MenuRecalculate(_, _)
\* "for child in descendants": each child is recomputed from its own parent_id
MenuRecalculate(mem, order) ==
    IF order = <<>> THEN mem
    ELSE LET child == Head(order)
             dp    == calculate_depth_and_path(mem, mem[child].parent_id, child)
         IN  MenuRecalculate(
                 [mem EXCEPT ![child].depth = dp.depth, ![child].path = dp.path],
                 Tail(order))

\* the path move_menu gives the moved menu, and with it the LIKE pattern of its
\* descendants query
MoveMenuPath(db, menu_id, new_parent_id) ==
    calculate_depth_and_path(db, new_parent_id, menu_id)

\* The session is made with autoflush=False: the descendants query filters
\* on the committed rows, the objects it returns carry the pending values.
MoveMenuDescendants(db, menu_id, tenant_id, new_parent_id) ==
    MenuPathDescendants(db, tenant_id, MoveMenuPath(db, menu_id, new_parent_id).path)

\* order: the order in which the descendants query returned its rows
move_menu(db, menu_id, tenant_id, move_data, order) ==
    LET menu   == get_menu_by_id(db, menu_id, tenant_id)
        parent == validate_parent_exists(db, move_data.new_parent_id, tenant_id)
        dp     == MoveMenuPath(db, menu_id, move_data.new_parent_id)
        moved  == [db EXCEPT
                      ![menu_id].parent_id = move_data.new_parent_id,
                      ![menu_id].depth = dp.depth,
                      ![menu_id].path = dp.path,
                      ![menu_id].display_order =
                          IF move_data.new_order # None THEN move_data.new_order ELSE @]
    IN  IF menu = None THEN Result("not_found", db)
        ELSE IF ~validate_no_circular_reference(db, menu_id, move_data.new_parent_id)
        THEN Result("invalid", db)
        ELSE IF Truthy(move_data.new_parent_id) /\ parent = None
        THEN Result("parent_not_found", db)
        ELSE IF Truthy(move_data.new_parent_id) /\ db[parent].depth >= MaxParentDepth
        THEN Result("depth_exceeded", db)
        ELSE IF ~MenuFkOk(db, move_data.new_parent_id) THEN Result("constraint", db)
        ELSE Result("ok", MenuRecalculate(moved, order))

\* ======================================================= category service
\* the boards table (owned by the board service): board id and its tenant
Boards == {[id |-> 1, tenant_id |-> 1], [id |-> 2, tenant_id |-> 2]}

\* ForeignKey("categories.id") on parent_id
CategoryFkOk(db, parent_id) == parent_id = None \/ parent_id \in DOMAIN db

\* the categories table without its unique constraint
uk_board_category_code_absent(db, board_id, category_code) == TRUE

\* UniqueConstraint("board_id", "category_code", name="uk_board_category_code")
uk_board_category_code(db, board_id, category_code) ==
    ~\E i \in DOMAIN db : db[i].board_id = board_id /\ db[i].category_code = category_code

\* a lookup by id alone
CategoryLookup_any(db, category_id, tenant_id) ==
    IF category_id \in DOMAIN db THEN category_id ELSE None

\* the category of: id == category_id, tenant_id == tenant_id, is_deleted == False
CategoryLookup(db, category_id, tenant_id) ==
    IF /\ category_id \in DOMAIN db
       /\ db[category_id].tenant_id = tenant_id
       /\ ~db[category_id].is_deleted
    THEN category_id ELSE None

_calculate_depth(db, parent_id) ==
    IF parent_id = None THEN 0
    ELSE IF parent_id \notin DOMAIN db THEN 0
    ELSE db[parent_id].depth + 1

\* a create, update or reorder that leaves the path column at its placeholder
CategoryPath_placeholder(db, parent_id, category_id) == <<>>

\* the path written by create, update and reorder: f"{parent.path}{id}/" or f"/{id}/"
CategoryPath(db, parent_id, category_id) ==
    IF Truthy(parent_id)
    THEN db[parent_id].path \o IntStr(category_id) \o <<"/">>
    ELSE <<"/">> \o IntStr(category_id) \o <<"/">>

\* "parent.path and category.path and parent.path.startswith(category.path)"
CategoryCycle(db, parent_id, category_id) ==
    /\ db[parent_id].path # <<>>
    /\ db[category_id].path # <<>>
    /\ StartsWith(db[parent_id].path, db[category_id].path)

RECURSIVE _update_descendants_path(_, _, _, _)
RECURSIVE UpdateDescendantRows(_, _, _, _)
\* The rows of the query are rewritten one after the other; they are distinct
\* rows with disjoint subtrees, so the order of the query does not matter.
\* db is the committed table the query filters on, mem the pending values.
UpdateDescendantRows(mem, db, todo, new_parent_path) ==
    IF todo = {} THEN mem
    ELSE LET descendant == CHOOSE d \in todo : TRUE
             path       == new_parent_path \o IntStr(descendant) \o <<"/">>
             one        == [mem EXCEPT ![descendant].path = path,
                                       ![descendant].depth = CountSlash(new_parent_path) - 1]
         IN  UpdateDescendantRows(
                 _update_descendants_path(one, db, descendant, path),
                 db, todo \ {descendant}, new_parent_path)

_update_descendants_path(mem, db, category_id, new_parent_path) ==
    UpdateDescendantRows(mem, db,
        {i \in DOMAIN db : db[i].parent_id = category_id}, new_parent_path)

\* lines 179-216 of create_category: the checks and the depth, before the insert
create_category_check(db, req) ==
    LET parent == IF /\ req.parent_id \in DOMAIN db
                     /\ db[req.parent_id].board_id = req.board_id
                     /\ ~db[req.parent_id].is_deleted
                  THEN req.parent_id ELSE None
    IN  IF [id |-> req.board_id, tenant_id |-> req.tenant_id] \notin Boards
        THEN "board_not_found"
        ELSE IF \E i \in DOMAIN db : /\ db[i].board_id = req.board_id
                                     /\ db[i].category_code = req.category_code
                                     /\ ~db[i].is_deleted
        THEN "conflict"
        ELSE IF Truthy(req.parent_id) /\ parent = None THEN "parent_not_found"
        ELSE "ok"

\* lines 218-248 of create_category: the insert, the path and the commit
create_category_insert(db, req, depth) ==
    LET id    == Len(db) + 1
        row   == [tenant_id |-> req.tenant_id, board_id |-> req.board_id,
                  category_code |-> req.category_code,
                  category_name |-> req.category_name, parent_id |-> req.parent_id,
                  depth |-> depth, path |-> <<>>, sort_order |-> req.sort_order,
                  is_active |-> TRUE, is_deleted |-> FALSE, post_count |-> 0]
        added == Append(db, row)
    IN  IF ~uk_board_category_code(db, req.board_id, req.category_code)
        THEN Result("constraint", db)
        ELSE IF ~CategoryFkOk(db, req.parent_id) THEN Result("constraint", db)
        ELSE Result("ok", [added EXCEPT ![id].path = CategoryPath(added, req.parent_id, id)])

create_category(db, req) ==
    LET checked == create_category_check(db, req)
    IN  IF checked # "ok" THEN Result(checked, db)
        ELSE create_category_insert(db, req, _calculate_depth(db, req.parent_id))

RECURSIVE DescentLoops(_, _, _)
\* _update_descendants_path never returns: below category_id the parent_id
\* links lead back to a category already being rewritten (above), and the
\* recursion ends in Python's RecursionError
DescentLoops(db, category_id, above) ==
    \E c \in {i \in DOMAIN db : db[i].parent_id = category_id} :
        c \in above \/ DescentLoops(db, c, above \cup {c})

\* category.parent_id / depth / path of a parent change and the descendants' rewrite
CategoryReparent(db, category_id, parent_id) ==
    LET new_path == CategoryPath(db, parent_id, category_id)
        moved    == [db EXCEPT ![category_id].parent_id = parent_id,
                               ![category_id].depth = _calculate_depth(db, parent_id),
                               ![category_id].path = new_path]
    IN  _update_descendants_path(moved, db, category_id, new_path)

update_category(db, category_id, tenant_id, upd) ==
    LET category == CategoryLookup(db, category_id, tenant_id)
        changing == upd.parent_id # None /\ upd.parent_id # db[category].parent_id
        fields   == [db EXCEPT
                        ![category_id].sort_order =
                            IF upd.sort_order # None THEN upd.sort_order ELSE @,
                        ![category_id].is_active =
                            IF "is_active" \in upd.fields THEN upd.is_active ELSE @]
    IN  IF category = None THEN Result("not_found", db)
        ELSE IF changing /\ upd.parent_id = category_id THEN Result("invalid", db)
        ELSE IF changing /\ upd.parent_id \notin DOMAIN db THEN Result("parent_not_found", db)
        ELSE IF changing /\ CategoryCycle(db, upd.parent_id, category_id)
        THEN Result("invalid", db)
        ELSE IF changing /\ DescentLoops(db, category_id, {category_id})
        THEN Result("error", db)
        ELSE IF changing
        THEN Result("ok", CategoryReparent(fields, category_id, upd.parent_id))
        ELSE Result("ok", fields)

delete_category(db, category_id, tenant_id) ==
    LET category == CategoryLookup(db, category_id, tenant_id)
        children == Cardinality({i \in DOMAIN db :
                        db[i].parent_id = category_id /\ ~db[i].is_deleted})
    IN  IF category = None THEN Result("not_found", db)
        ELSE IF children > 0 THEN Result("has_children", db)
        ELSE Result("ok", [db EXCEPT ![category_id].is_deleted = TRUE])

reorder_categories(db, req, tenant_id) ==
    LET category == CategoryLookup(db, req.category_id, tenant_id)
        changing == req.new_parent_id # db[category].parent_id
        moved    == IF changing
                    THEN CategoryReparent(db, req.category_id, req.new_parent_id)
                    ELSE db
    IN  IF category = None THEN Result("not_found", db)
        ELSE IF req.new_parent_id = req.category_id THEN Result("invalid", db)
        ELSE IF changing /\ Truthy(req.new_parent_id) /\ req.new_parent_id \notin DOMAIN db
        THEN Result("parent_not_found", db)
        ELSE IF changing /\ Truthy(req.new_parent_id)
                /\ CategoryCycle(db, req.new_parent_id, req.category_id)
        THEN Result("invalid", db)
        ELSE IF changing /\ DescentLoops(db, req.category_id, {req.category_id})
        THEN Result("error", db)
        ELSE IF ~CategoryFkOk(db, req.new_parent_id) THEN Result("constraint", db)
        ELSE Result("ok", [moved EXCEPT ![req.category_id].sort_order = req.new_sort_order])

\* the rows of the query of get_categories_tree and get_categories_flat
CategoryFetched(db, board_id, tenant_id, include_inactive) ==
    {i \in DOMAIN db : /\ db[i].board_id = board_id
                       /\ db[i].tenant_id = tenant_id
                       /\ ~db[i].is_deleted
                       /\ (include_inactive \/ db[i].is_active)}

\* ORDER BY sort_order, category_name
CategoryTreeLeq(db, a, b) ==
    \/ db[a].sort_order < db[b].sort_order
    \/ /\ db[a].sort_order = db[b].sort_order
       /\ NameRank(db[a].category_name) <= NameRank(db[b].category_name)

\* ORDER BY path, sort_order
CategoryFlatLeq(db, a, b) ==
    \/ db[a].path # db[b].path /\ StrLeq(db[a].path, db[b].path)
    \/ db[a].path = db[b].path /\ db[a].sort_order <= db[b].sort_order

\* listed: the list "categories" that query.all() returned
get_categories_tree(db, listed) ==
    LET IsRoot(c) == db[c].parent_id = None
        children  == [p \in DOMAIN db |->
                         LET Under(c) == db[c].parent_id = p
                         IN  Filter(listed, Under)]
    IN  Forest(Filter(listed, IsRoot), children)

get_categories_flat(db, listed) == listed

RECURSIVE BreadcrumbWalk(_, _, _)
\* "while current_id:" of get_category_breadcrumb: a query by id alone, the
\* entry inserted at the front, then current_id = category.parent_id.  The
\* loop keeps no record of the ids it met: when it meets one a second time
\* (visited) it repeats the same queries for ever and the call never returns.
BreadcrumbWalk(db, current_id, visited) ==
    IF ~Truthy(current_id) THEN [ends |-> TRUE, breadcrumb |-> <<>>]
    ELSE IF current_id \notin DOMAIN db THEN [ends |-> TRUE, breadcrumb |-> <<>>]
    ELSE IF current_id \in visited THEN [ends |-> FALSE, breadcrumb |-> <<>>]
    ELSE LET up == BreadcrumbWalk(db, db[current_id].parent_id, visited \cup {current_id})
         IN  [ends |-> up.ends, breadcrumb |-> up.breadcrumb \o <<current_id>>]

get_category_breadcrumb(db, category_id) == BreadcrumbWalk(db, category_id, {})

\* ================================================================ actions
\* One action per service call: the committed table after the call (the table
\* before it when the call fails and rolls back) and the outcome of the call.
Idle == [state |-> "idle"]

\* limit: the number of rows the table may hold
CreateMenuWithin(limit, tenant_id, data) ==
    /\ svc = "menu"
    /\ Serve
    /\ Len(menus) < limit
    /\ LET r == create_menu(menus, tenant_id, data)
       IN  /\ menus' = r.db
           /\ last' = Outcome("create_menu",
                              IF r.status = "ok" THEN Len(menus) + 1 ELSE None,
                              data.parent_id, r.status, menus, r.db)
    /\ UNCHANGED <<svc, categories, inflight>>

CreateMenu(tenant_id, data) == CreateMenuWithin(MaxNodes, tenant_id, data)

UpdateMenu(menu_id, tenant_id, data) ==
    /\ svc = "menu"
    /\ Serve
    /\ LET r == update_menu(menus, menu_id, tenant_id, data)
       IN  /\ menus' = r.db
           /\ last' = Outcome("update_menu", menu_id, data.parent_id, r.status, menus, r.db)
    /\ UNCHANGED <<svc, categories, inflight>>

DeleteMenu(menu_id, tenant_id) ==
    /\ svc = "menu"
    /\ Serve
    /\ LET r == delete_menu(menus, menu_id, tenant_id)
       IN  /\ menus' = r.db
           /\ last' = Outcome("delete_menu", menu_id, None, r.status, menus, r.db)
    /\ UNCHANGED <<svc, categories, inflight>>

MoveMenu(menu_id, tenant_id, move_data) ==
    /\ svc = "menu"
    /\ Serve
    /\ \E order \in Orders(MoveMenuDescendants(menus, menu_id, tenant_id,
                                               move_data.new_parent_id)) :
          LET r == move_menu(menus, menu_id, tenant_id, move_data, order)
          IN  /\ menus' = r.db
              /\ last' = Outcome("move_menu", menu_id, move_data.new_parent_id, r.status, menus, r.db)
    /\ UNCHANGED <<svc, categories, inflight>>

ReorderMenus(tenant_id, items) ==
    /\ svc = "menu"
    /\ Serve
    /\ LET r == reorder_menus(menus, tenant_id, items)
       IN  /\ menus' = IF r.status = "ok" THEN r.db ELSE menus
           /\ last' = Outcome("reorder_menus",
                              IF r.status = "ok" THEN updated_menus(items) ELSE <<>>,
                              items,
                              r.status, menus, menus')
    /\ UNCHANGED <<svc, categories, inflight>>

\* arg: the count the call returns
BulkDeleteMenus(menu_ids, tenant_id) ==
    /\ svc = "menu"
    /\ Serve
    /\ LET r == bulk_delete_menus(menus, menu_ids, tenant_id, 0)
       IN  /\ menus' = r.db
           /\ last' = Outcome("bulk_delete_menus", None, r.deleted_count, r.status,
                              menus, r.db)
    /\ UNCHANGED <<svc, categories, inflight>>

CreateCategoryWithin(limit, req) ==
    /\ svc = "category"
    /\ Serve
    /\ Len(categories) < limit
    /\ LET r == create_category(categories, req)
       IN  /\ categories' = r.db
           /\ last' = Outcome("create_category",
                              IF r.status = "ok" THEN Len(categories) + 1 ELSE None,
                              req.parent_id, r.status, categories, r.db)
    /\ UNCHANGED <<svc, menus, inflight>>

CreateCategory(req) == CreateCategoryWithin(MaxNodes, req)

UpdateCategory(category_id, tenant_id, upd) ==
    /\ svc = "category"
    /\ Serve
    /\ LET r == update_category(categories, category_id, tenant_id, upd)
       IN  /\ categories' = r.db
           /\ last' = Outcome("update_category", category_id, upd.parent_id, r.status, categories, r.db)
    /\ UNCHANGED <<svc, menus, inflight>>

DeleteCategory(category_id, tenant_id) ==
    /\ svc = "category"
    /\ Serve
    /\ LET r == delete_category(categories, category_id, tenant_id)
       IN  /\ categories' = r.db
           /\ last' = Outcome("delete_category", category_id, None, r.status, categories, r.db)
    /\ UNCHANGED <<svc, menus, inflight>>

ReorderCategories(req, tenant_id) ==
    /\ svc = "category"
    /\ Serve
    /\ LET r == reorder_categories(categories, req, tenant_id)
       IN  /\ categories' = r.db
           /\ last' = Outcome("reorder_categories", req.category_id,
                              req.new_parent_id, r.status, categories, r.db)
    /\ UNCHANGED <<svc, menus, inflight>>

\* post bookkeeping (outside the two services) attaches a post to a category
\* and synchronises the category's post_count
AttachPost(category_id) ==
    /\ svc = "category"
    /\ Serve
    /\ category_id \in DOMAIN categories
    /\ ~categories[category_id].is_deleted
    /\ categories[category_id].post_count < MaxPosts
    /\ categories' = [categories EXCEPT ![category_id].post_count = @ + 1]
    /\ last' = Outcome("attach_post", category_id, None, "ok", categories, categories')
    /\ UNCHANGED <<svc, menus, inflight>>

\* a query: the breadcrumb returned, or a call that never returns
GetCategoryBreadcrumb(category_id) ==
    /\ svc = "category"
    /\ Serve
    /\ LET r == get_category_breadcrumb(categories, category_id)
       IN  last' = Outcome("get_category_breadcrumb", category_id, r.breadcrumb,
                           IF r.ends THEN "ok" ELSE "diverges", categories, categories)
    /\ UNCHANGED <<svc, categories, menus, inflight>>

\* a query of the category tree; the result and its include_inactive flag
GetCategoriesTree(board_id, tenant_id, include_inactive) ==
    /\ svc = "category"
    /\ Serve
    /\ \E listed \in SortedOrders(
              CategoryFetched(categories, board_id, tenant_id, include_inactive),
              LAMBDA a, b : CategoryTreeLeq(categories, a, b)) :
          last' = Outcome("get_categories_tree", None,
                          [include_inactive |-> include_inactive,
                           result |-> get_categories_tree(categories, listed)],
                          "ok", categories, categories)
    /\ UNCHANGED <<svc, categories, menus, inflight>>

GetCategoriesFlat(board_id, tenant_id, include_inactive) ==
    /\ svc = "category"
    /\ Serve
    /\ \E listed \in SortedOrders(
              CategoryFetched(categories, board_id, tenant_id, include_inactive),
              LAMBDA a, b : CategoryFlatLeq(categories, a, b)) :
          last' = Outcome("get_categories_flat", None,
                          [include_inactive |-> include_inactive,
                           result |-> get_categories_flat(categories, listed)],
                          "ok", categories, categories)
    /\ UNCHANGED <<svc, categories, menus, inflight>>

\* a query of the menu tree (active menus only)
GetMenuTree(tenant_id, menu_type) ==
    /\ svc = "menu"
    /\ Serve
    /\ \E loaded \in MenuChildrenLoads(menus) :
          last' = Outcome("get_menu_tree", None,
                          [include_inactive |-> FALSE,
                           result |-> get_menu_tree(menus, tenant_id, menu_type, loaded)],
                          "ok", menus, menus)
    /\ UNCHANGED <<svc, categories, menus, inflight>>

\* ------------------------------------------------------------------ inputs
NodeIds == 1..MaxNodes

\* a parent argument: null, 0 (accepted by the schemas, Field(ge=0)) or an id
ParentArgs == {None, 0} \cup NodeIds

\* the code given to the n-th row of a table when every code is fresh
CodeName(n) == <<"c">> \o IntStr(n)

MenuCreateData(parent_id, menu_code) ==
    [parent_id |-> parent_id, menu_code |-> menu_code, menu_type |-> "user",
     display_order |-> 0, is_active |-> TRUE]

\* MenuUpdate payloads that set parent_id (also to null), and the empty payload
MenuParentUpdates ==
    {[fields |-> {"parent_id"}, parent_id |-> p, display_order |-> None,
      is_active |-> TRUE, menu_type |-> "user"] : p \in ParentArgs}
    \cup {[fields |-> {}, parent_id |-> None, display_order |-> None,
           is_active |-> TRUE, menu_type |-> "user"]}

MenuMoveData(new_parent_id) == [new_parent_id |-> new_parent_id, new_order |-> None]

CategoryCreateReq(parent_id, category_code) ==
    [tenant_id |-> 1, board_id |-> 1, parent_id |-> parent_id,
     category_code |-> category_code, category_name |-> Names[1], sort_order |-> 0]

CategoryParentUpdates ==
    {[fields |-> {}, parent_id |-> p, sort_order |-> None, is_active |-> TRUE] :
        p \in ParentArgs}

CategoryReorderReq(category_id, new_parent_id) ==
    [category_id |-> category_id, new_parent_id |-> new_parent_id, new_sort_order |-> 0]

\* ------------------------------------------------------- the specification
\* The two services share no table: a behaviour is a stream of calls to one
\* of them, chosen at the start.  Every call is made for tenant 1 and a row
\* gets a fresh code.
Init ==
    /\ svc \in {"category", "menu"}
    /\ categories = <<>>
    /\ menus = <<>>
    /\ inflight = [i \in 1..MaxInflight |-> Idle]
    /\ last = Outcome("init", None, None, "ok", <<>>, <<>>)
    /\ calls = 0

TreeCreateMenu ==
    \E p \in ParentArgs : CreateMenu(1, MenuCreateData(p, CodeName(Len(menus) + 1)))

TreeUpdateMenu == \E n \in NodeIds, data \in MenuParentUpdates : UpdateMenu(n, 1, data)

TreeMoveMenu == \E n \in NodeIds, p \in ParentArgs : MoveMenu(n, 1, MenuMoveData(p))

TreeDeleteMenu == \E n \in NodeIds : DeleteMenu(n, 1)

TreeCreateCategory ==
    \E p \in ParentArgs :
        CreateCategory(CategoryCreateReq(p, CodeName(Len(categories) + 1)))

TreeUpdateCategory ==
    \E n \in NodeIds, upd \in CategoryParentUpdates : UpdateCategory(n, 1, upd)

TreeReorderCategories ==
    \E n \in NodeIds, p \in ParentArgs : ReorderCategories(CategoryReorderReq(n, p), 1)

TreeDeleteCategory == \E n \in NodeIds : DeleteCategory(n, 1)

TreeAttachPost == \E n \in NodeIds : AttachPost(n)

Next ==
    \/ TreeCreateMenu
    \/ TreeUpdateMenu
    \/ TreeMoveMenu
    \/ TreeDeleteMenu
    \/ TreeCreateCategory
    \/ TreeUpdateCategory
    \/ TreeReorderCategories
    \/ TreeDeleteCategory
    \/ TreeAttachPost

Spec == Init /\ [][Next]_vars

\* ------------------------------------------- concurrent create_category
\* Two requests run create_category in two sessions.  A request first runs its
\* checks and computes the depth on the rows committed so far, and later
\* inserts and commits; the rows committed in between are visible to the
\* insert (its unique and foreign-key constraints, the parent's path).
BeginCreateCategory(slot, req) ==
    /\ svc = "category"
    /\ Serve
    /\ inflight[slot] = Idle
    /\ Len(categories) + Cardinality({i \in DOMAIN inflight : inflight[i] # Idle}) < MaxNodes
    /\ LET checked == create_category_check(categories, req)
       IN  IF checked = "ok"
           THEN /\ inflight' = [inflight EXCEPT ![slot] =
                        [state |-> "checked", req |-> req,
                         depth |-> _calculate_depth(categories, req.parent_id)]]
                /\ UNCHANGED last
           ELSE /\ last' = Outcome("create_category", None, req.parent_id, checked,
                                   categories, categories)
                /\ UNCHANGED inflight
    /\ UNCHANGED <<svc, categories, menus>>

FinishCreateCategory(slot) ==
    /\ svc = "category"
    /\ inflight[slot] # Idle
    /\ LET req == inflight[slot].req
           r   == create_category_insert(categories, req, inflight[slot].depth)
       IN  /\ categories' = r.db
           /\ last' = Outcome("create_category",
                              IF r.status = "ok" THEN Len(categories) + 1 ELSE None,
                              req.parent_id, r.status, categories, r.db)
    /\ inflight' = [inflight EXCEPT ![slot] = Idle]
    /\ UNCHANGED <<svc, menus, calls>>

\* ----------------------------------------------- the specification of codes
\* Requests of two tenants (a board each, two menu types) that draw their
\* codes from a set of two; create_category runs in concurrent sessions.
Codes == {CodeName(1), CodeName(2)}

TenantIds == {1, 2}

MenuTypes == {"user", "admin"}

\* parents of the requests of SpecCode: a root or a child of the first row
CodeParents == {None, 1}

CodeCreateMenu ==
    \E t \in TenantIds, p \in CodeParents, c \in Codes, ty \in MenuTypes :
        CreateMenu(t, [MenuCreateData(p, c) EXCEPT !.menu_type = ty])

CodeUpdateMenu ==
    \E n \in NodeIds, t \in TenantIds, ty \in MenuTypes :
        UpdateMenu(n, t, [fields |-> {"menu_type"}, parent_id |-> None,
                          display_order |-> None, is_active |-> TRUE, menu_type |-> ty])

CodeDeleteMenu == \E n \in NodeIds, t \in TenantIds : DeleteMenu(n, t)

CodeBeginCreateCategory ==
    \E slot \in 1..MaxInflight, b \in Boards, p \in CodeParents, c \in Codes :
        BeginCreateCategory(slot,
            [CategoryCreateReq(p, c) EXCEPT !.tenant_id = b.tenant_id, !.board_id = b.id])

CodeFinishCreateCategory == \E slot \in 1..MaxInflight : FinishCreateCategory(slot)

CodeDeleteCategory == \E n \in NodeIds, t \in TenantIds : DeleteCategory(n, t)

NextCode ==
    \/ CodeCreateMenu
    \/ CodeUpdateMenu
    \/ CodeDeleteMenu
    \/ CodeBeginCreateCategory
    \/ CodeFinishCreateCategory
    \/ CodeDeleteCategory

SpecCode == Init /\ [][NextCode]_vars

\* the create and delete requests served one after the other
DupCreateCategory ==
    \E b \in Boards, p \in CodeParents, c \in Codes :
        CreateCategory([CategoryCreateReq(p, c) EXCEPT !.tenant_id = b.tenant_id,
                                                       !.board_id = b.id])

NextDup ==
    \/ CodeCreateMenu
    \/ CodeDeleteMenu
    \/ DupCreateCategory
    \/ CodeDeleteCategory

SpecDup == Init /\ [][NextDup]_vars

\* ------------------------------------------- the specification of depth
\* Create calls only, of one tenant and one board, on a table of MaxChain
\* rows: chains of every depth up to MaxChain - 1 are built.
ChainParents == {None} \cup (1..MaxChain)

DepthCreateMenu ==
    \E p \in ChainParents :
        CreateMenuWithin(MaxChain, 1, MenuCreateData(p, CodeName(Len(menus) + 1)))

DepthCreateCategory ==
    \E p \in ChainParents :
        CreateCategoryWithin(MaxChain, CategoryCreateReq(p, CodeName(Len(categories) + 1)))

NextDepth ==
    \/ DepthCreateMenu
    \/ DepthCreateCategory

SpecDepth == Init /\ [][NextDepth]_vars

\* --------------------------------------- the specification of deep moves
\* Create, move and update calls of tenant 1 on a menu table of MaxChain
\* rows, so that a menu with a subtree can be put under a parent of any depth.
DeepMoveMenu ==
    \E m \in 1..MaxChain, p \in ChainParents : MoveMenu(m, 1, MenuMoveData(p))

DeepUpdateMenu ==
    \E m \in 1..MaxChain, p \in ChainParents :
        UpdateMenu(m, 1, [fields |-> {"parent_id"}, parent_id |-> p,
                          display_order |-> None, is_active |-> TRUE,
                          menu_type |-> "user"])

NextDeep ==
    \/ DepthCreateMenu
    \/ DeepMoveMenu
    \/ DeepUpdateMenu

SpecDeep == Init /\ [][NextDeep]_vars

\* ------------------------------------------- the specification of order
\* Create and reorder calls of tenant 1.  A reorder_menus request lists up to
\* MaxItems menus and numbers them in the order of the list, as a
\* drag-and-drop client does; reorder_categories gives a sort order of
\* 0..MaxOrder.
SortOrders == 0..MaxOrder

RECURSIVE SeqsUpTo(_, _)
\* the sequences over S of length 1..n
SeqsUpTo(S, n) ==
    IF n = 0 THEN {}
    ELSE LET shorter == SeqsUpTo(S, n - 1)
         IN  {<<x>> : x \in S} \cup shorter \cup {Append(q, x) : q \in shorter, x \in S}

\* a request names a menu once
MenuReorderItems ==
    {[k \in 1..Len(ids) |-> [menu_id |-> ids[k], new_order |-> k]] :
        ids \in {q \in SeqsUpTo(NodeIds, MaxItems) :
                    \A i, j \in 1..Len(q) : q[i] = q[j] => i = j}}

OrderCreateMenu ==
    \E p \in CodeParents : CreateMenu(1, MenuCreateData(p, CodeName(Len(menus) + 1)))

OrderReorderMenus == \E items \in MenuReorderItems : ReorderMenus(1, items)

OrderCreateCategory ==
    \E p \in CodeParents :
        CreateCategory(CategoryCreateReq(p, CodeName(Len(categories) + 1)))

OrderReorderCategories ==
    \E n \in NodeIds, p \in CodeParents, o \in SortOrders :
        ReorderCategories([CategoryReorderReq(n, p) EXCEPT !.new_sort_order = o], 1)

\* MenuUpdate payloads that set parent_id, display_order, both or nothing; a
\* field that is not set holds its default None
OrderMenuUpdates ==
    {[fields |-> {"parent_id", "display_order"}, parent_id |-> p, display_order |-> o,
      is_active |-> TRUE, menu_type |-> "user"] : p \in CodeParents, o \in SortOrders}
    \cup {[fields |-> {"parent_id"}, parent_id |-> p, display_order |-> None,
           is_active |-> TRUE, menu_type |-> "user"] : p \in CodeParents}
    \cup {[fields |-> {"display_order"}, parent_id |-> None, display_order |-> o,
           is_active |-> TRUE, menu_type |-> "user"] : o \in SortOrders}
    \cup {[fields |-> {}, parent_id |-> None, display_order |-> None,
           is_active |-> TRUE, menu_type |-> "user"]}

\* CategoryUpdate payloads with and without parent_id and sort_order
OrderCategoryUpdates ==
    {[fields |-> {}, parent_id |-> p, sort_order |-> o, is_active |-> TRUE] :
        p \in CodeParents, o \in SortOrders \cup {None}}

OrderUpdateMenu == \E n \in NodeIds, data \in OrderMenuUpdates : UpdateMenu(n, 1, data)

OrderUpdateCategory ==
    \E n \in NodeIds, upd \in OrderCategoryUpdates : UpdateCategory(n, 1, upd)

NextOrder ==
    \/ OrderCreateMenu
    \/ OrderReorderMenus
    \/ OrderCreateCategory
    \/ OrderReorderCategories

SpecOrder == Init /\ [][NextOrder]_vars

\* create and update calls of tenant 1
NextUpdate ==
    \/ OrderCreateMenu
    \/ OrderUpdateMenu
    \/ OrderCreateCategory
    \/ OrderUpdateCategory

SpecUpdate == Init /\ [][NextUpdate]_vars

\* ---------------------------------------- concurrent reorder_categories
\* Two requests run reorder_categories in two sessions; no query of the
\* service takes a row lock and the engine is made with the default isolation
\* level.  A request reads the committed rows and computes its pending values
\* (autoflush=False: nothing is written before the commit); its flush at
\* commit issues, for every row it changed, an UPDATE of the columns whose
\* value differs from the value it loaded.
Flush(db, base, pending) ==
    [i \in DOMAIN db |->
        IF i \in DOMAIN base
        THEN [f \in DOMAIN db[i] |->
                 IF pending[i][f] # base[i][f] THEN pending[i][f] ELSE db[i][f]]
        ELSE db[i]]

\* no request is between its reads and its commit
Quiet == \A slot \in 1..MaxInflight : inflight[slot] = Idle

BeginReorderCategories(slot, req, tenant_id) ==
    /\ svc = "category"
    /\ Serve
    /\ inflight[slot] = Idle
    /\ LET r == reorder_categories(categories, req, tenant_id)
       IN  IF r.status = "ok"
           THEN /\ inflight' = [inflight EXCEPT ![slot] =
                        [state |-> "moving", req |-> req, base |-> categories,
                         pending |-> r.db, seen |-> <<>>]]
                /\ UNCHANGED last
           ELSE /\ last' = Outcome("reorder_categories", req.category_id,
                                   req.new_parent_id, r.status, categories, categories)
                /\ UNCHANGED inflight
    /\ UNCHANGED <<svc, categories, menus>>

\* the commit; seen records, for the requests still running, the request that
\* committed meanwhile and the rows it had read
FinishReorderCategories(slot) ==
    /\ svc = "category"
    /\ inflight[slot] # Idle
    /\ inflight[slot].state = "moving"
    /\ LET mine == inflight[slot]
       IN  /\ categories' = Flush(categories, mine.base, mine.pending)
           /\ last' = Outcome("reorder_categories", mine.req.category_id,
                              mine.req.new_parent_id, "ok", categories, categories')
           /\ inflight' = [t \in 1..MaxInflight |->
                  IF t = slot \/ inflight[t] = Idle THEN Idle
                  ELSE [inflight[t] EXCEPT
                           !.seen = Append(@, [req |-> mine.req, base |-> mine.base])]]
    /\ UNCHANGED <<svc, menus, calls>>

\* ------------------------------------------- the specification of moves
\* Categories of tenant 1 are created while no reorder is running, and
\* reorder_categories requests run concurrently.
MoveParents == {None} \cup NodeIds

MoveCreateCategory ==
    /\ Quiet
    /\ \E p \in MoveParents :
          CreateCategory(CategoryCreateReq(p, CodeName(Len(categories) + 1)))

MoveBeginReorderCategories ==
    \E slot \in 1..MaxInflight, n \in NodeIds, p \in MoveParents :
        BeginReorderCategories(slot, CategoryReorderReq(n, p), 1)

MoveFinishReorderCategories ==
    \E slot \in 1..MaxInflight : FinishReorderCategories(slot)

NextMove ==
    \/ MoveCreateCategory
    \/ MoveBeginReorderCategories
    \/ MoveFinishReorderCategories

SpecMove == Init /\ [][NextMove]_vars

\* the concurrent reorders of SpecMove, and breadcrumb queries between them
CrumbBreadcrumb == Quiet /\ \E n \in NodeIds : GetCategoryBreadcrumb(n)

NextCrumb ==
    \/ MoveCreateCategory
    \/ MoveBeginReorderCategories
    \/ MoveFinishReorderCategories
    \/ CrumbBreadcrumb

SpecCrumb == Init /\ [][NextCrumb]_vars

\* ------------------------------------------------------ storage failures
\* A statement of the call, its commit, or the refresh that follows the commit
\* raises.  Every handler rolls the session back and raises; a rollback after
\* the commit undoes nothing.
UnderFault(r, db, fault) ==
    IF r.status # "ok" \/ fault = "none" THEN r
    ELSE IF fault = "refresh" THEN Result("error", r.db)
    ELSE Result("error", db)

\* move_menu: statements, db.commit(), db.refresh(menu)
MenuFaults == {"none", "statement", "commit", "refresh"}

\* update_category: statements and session.commit()
CategoryFaults == {"none", "statement", "commit"}

FaultyMoveMenu(menu_id, tenant_id, move_data, fault) ==
    /\ svc = "menu"
    /\ Serve
    /\ \E order \in Orders(MoveMenuDescendants(menus, menu_id, tenant_id,
                                               move_data.new_parent_id)) :
          LET r == UnderFault(move_menu(menus, menu_id, tenant_id, move_data, order),
                              menus, fault)
          IN  /\ menus' = r.db
              /\ last' = Outcome("move_menu", menu_id, move_data.new_parent_id,
                                 r.status, menus, r.db)
    /\ UNCHANGED <<svc, categories, inflight>>

FaultyUpdateCategory(category_id, tenant_id, upd, fault) ==
    /\ svc = "category"
    /\ Serve
    /\ LET r == UnderFault(update_category(categories, category_id, tenant_id, upd),
                           categories, fault)
       IN  /\ categories' = r.db
           /\ last' = Outcome("update_category", category_id, upd.parent_id,
                              r.status, categories, r.db)
    /\ UNCHANGED <<svc, menus, inflight>>

\* -------------------------------------- the specification of failures
\* create calls, and move_menu and update_category calls under every fault
FailMoveMenu ==
    \E n \in NodeIds, p \in MoveParents, fault \in MenuFaults :
        FaultyMoveMenu(n, 1, MenuMoveData(p), fault)

FailUpdateCategory ==
    \E n \in NodeIds, upd \in CategoryParentUpdates, fault \in CategoryFaults :
        FaultyUpdateCategory(n, 1, upd, fault)

NextFail ==
    \/ OrderCreateMenu
    \/ FailMoveMenu
    \/ OrderCreateCategory
    \/ FailUpdateCategory

SpecFail == Init /\ [][NextFail]_vars

\* ---------------------------------- the specification of missing nodes
\* Calls of two tenants (a board each) served one after the other: a call may
\* name an id that was never given, a row of the other tenant or a
\* soft-deleted row.
GoneMenuUpdates ==
    {[fields |-> {"parent_id"}, parent_id |-> p, display_order |-> None,
      is_active |-> TRUE, menu_type |-> "user"] : p \in CodeParents}
    \cup {[fields |-> {}, parent_id |-> None, display_order |-> None,
           is_active |-> TRUE, menu_type |-> "user"]}

GoneCategoryUpdates ==
    {[fields |-> {}, parent_id |-> p, sort_order |-> None, is_active |-> TRUE] :
        p \in CodeParents}

\* one more request of a short behaviour
Probe == calls < MaxProbe

GoneCreateMenu ==
    /\ Probe
    /\ \E t \in TenantIds, p \in CodeParents :
        CreateMenu(t, MenuCreateData(p, CodeName(Len(menus) + 1)))

GoneUpdateMenu ==
    /\ Probe
    /\ \E n \in NodeIds, t \in TenantIds, data \in GoneMenuUpdates : UpdateMenu(n, t, data)

GoneMoveMenu ==
    /\ Probe
    /\ \E n \in NodeIds, t \in TenantIds, p \in CodeParents : MoveMenu(n, t, MenuMoveData(p))

GoneReorderMenus ==
    /\ Probe
    /\ \E t \in TenantIds, items \in MenuReorderItems : ReorderMenus(t, items)

GoneCreateCategory ==
    /\ Probe
    /\ \E b \in Boards, p \in CodeParents :
        CreateCategory([CategoryCreateReq(p, CodeName(Len(categories) + 1)) EXCEPT
                           !.tenant_id = b.tenant_id, !.board_id = b.id])

GoneUpdateCategory ==
    /\ Probe
    /\ \E n \in NodeIds, t \in TenantIds, upd \in GoneCategoryUpdates :
        UpdateCategory(n, t, upd)

GoneReorderCategories ==
    /\ Probe
    /\ \E n \in NodeIds, t \in TenantIds, p \in CodeParents :
        ReorderCategories(CategoryReorderReq(n, p), t)

GoneDeleteMenu == Probe /\ CodeDeleteMenu

GoneDeleteCategory == Probe /\ CodeDeleteCategory

NextGone ==
    \/ GoneCreateMenu
    \/ GoneUpdateMenu
    \/ GoneMoveMenu
    \/ GoneReorderMenus
    \/ GoneDeleteMenu
    \/ GoneCreateCategory
    \/ GoneUpdateCategory
    \/ GoneReorderCategories
    \/ GoneDeleteCategory

SpecGone == Init /\ [][NextGone]_vars

\* ------------------------------------------- the specification of queries
\* Calls of tenant 1 (board 1, user menus) served one after the other: rows
\* are created with a sort order and a name, hidden (is_active) and deleted,
\* and the tree and flat queries are made.
ViewCreateMenu ==
    /\ Probe
    /\ \E p \in CodeParents, o \in SortOrders :
          CreateMenu(1, [MenuCreateData(p, CodeName(Len(menus) + 1)) EXCEPT
                            !.display_order = o])

ViewHideMenu ==
    /\ Probe
    /\ \E n \in NodeIds :
          UpdateMenu(n, 1, [fields |-> {"is_active"}, parent_id |-> None,
                            display_order |-> None, is_active |-> FALSE,
                            menu_type |-> "user"])

ViewDeleteMenu == Probe /\ \E n \in NodeIds : DeleteMenu(n, 1)

ViewGetMenuTree == Probe /\ GetMenuTree(1, "user")

ViewCreateCategory ==
    /\ Probe
    /\ \E p \in CodeParents, o \in SortOrders, k \in 1..Len(Names) :
          CreateCategory([CategoryCreateReq(p, CodeName(Len(categories) + 1)) EXCEPT
                             !.sort_order = o, !.category_name = Names[k]])

ViewHideCategory ==
    /\ Probe
    /\ \E n \in NodeIds :
          UpdateCategory(n, 1, [fields |-> {"is_active"}, parent_id |-> None,
                                sort_order |-> None, is_active |-> FALSE])

ViewDeleteCategory == Probe /\ \E n \in NodeIds : DeleteCategory(n, 1)

ViewGetCategoriesTree ==
    Probe /\ \E include_inactive \in BOOLEAN : GetCategoriesTree(1, 1, include_inactive)

ViewGetCategoriesFlat ==
    Probe /\ \E include_inactive \in BOOLEAN : GetCategoriesFlat(1, 1, include_inactive)

NextView ==
    \/ ViewCreateMenu
    \/ ViewHideMenu
    \/ ViewDeleteMenu
    \/ ViewGetMenuTree
    \/ ViewCreateCategory
    \/ ViewHideCategory
    \/ ViewDeleteCategory
    \/ ViewGetCategoriesTree
    \/ ViewGetCategoriesFlat

SpecView == Init /\ [][NextView]_vars

\* ------------------------------------- the specification of bulk calls
\* Menus of tenant 1 are created, and reordered and deleted in bulk.  A
\* request may name a menu more than once (the schemas do not forbid it).
\* requests of one item and of two items
ReorderRequests ==
    LET Items == [menu_id : NodeIds, new_order : SortOrders]
    IN  {<<a>> : a \in Items} \cup {<<a, b>> : a \in Items, b \in Items}

BatchCreateMenu ==
    /\ Probe
    /\ \E p \in CodeParents : CreateMenu(1, MenuCreateData(p, CodeName(Len(menus) + 1)))

BatchReorderMenus == Probe /\ \E items \in ReorderRequests : ReorderMenus(1, items)

BatchDeleteMenus ==
    Probe /\ \E menu_ids \in SeqsUpTo(NodeIds, MaxItems) : BulkDeleteMenus(menu_ids, 1)

NextBatch ==
    \/ BatchCreateMenu
    \/ BatchReorderMenus
    \/ BatchDeleteMenus

SpecBatch == Init /\ [][NextBatch]_vars

\* ============================================================= properties
\* the table of the service the behaviour exercises
Table == IF svc = "menu" THEN menus ELSE categories

Live(db) == {i \in DOMAIN db : ~db[i].is_deleted}

RECURSIVE ChainFrom(_, _, _)
\* the ids met by following parent_id from n up to a root, root first, n last;
\* the walk stops when it meets an id a second time
ChainFrom(db, n, seen) ==
    IF n = None \/ n \notin DOMAIN db \/ n \in seen THEN <<>>
    ELSE ChainFrom(db, db[n].parent_id, seen \cup {n}) \o <<n>>

ParentChain(db, n) == ChainFrom(db, n, {})

RECURSIVE ReachesUp(_, _, _, _)
\* following parent_id from "from" arrives at "target" after at least one link
ReachesUp(db, from, target, seen) ==
    IF from \notin DOMAIN db \/ from \in seen THEN FALSE
    ELSE LET up == db[from].parent_id
         IN  up = target \/ ReachesUp(db, up, target, seen \cup {from})

\* n lies on the parent_id chain of d: d is a descendant of n
IsDescendant(db, d, n) == ReachesUp(db, d, n, {})

Descendants(db, n) == {d \in DOMAIN db : d # n /\ IsDescendant(db, d, n)}

\* C1: every non-deleted node has depth 0 when it has no parent and the depth
\* of its parent plus one otherwise, in the category and in the menu table.
C1_DepthMatchesParent ==
    \A n \in Live(Table) :
        Table[n].depth = IF Table[n].parent_id = None THEN 0
                         ELSE Table[Table[n].parent_id].depth + 1

\* C2: the stored path of every non-deleted node decodes to the list of ids
\* obtained by following parent_id from the node to its root, root first.
C2_PathIsParentChain ==
    \A n \in Live(Table) : DecodePath(Table[n].path) = ParentChain(Table, n)

\* C3: following parent_id links from a node never returns to that node.
C3_NoCycle == \A n \in DOMAIN Table : ~IsDescendant(Table, n, n)

\* the calls that can change a parent: move_menu, update_menu, update_category
\* and reorder_categories
MoveOps == {"move_menu", "update_menu", "update_category", "reorder_categories"}

DeleteOps == {"delete_menu", "delete_category"}

\* this step is a successful call of a Move operation that gave n another parent
MoveStep(n) ==
    /\ last'.op \in MoveOps
    /\ last'.status = "ok"
    /\ last'.id = n
    /\ n \in DOMAIN Table
    /\ Table'[n].parent_id # Table[n].parent_id

\* this step is a successful delete of n
DeleteStep(n) ==
    /\ last'.op \in DeleteOps
    /\ last'.status = "ok"
    /\ last'.id = n

TreeFields(row) == <<row.parent_id, row.depth, row.path>>

\* the part of a path behind its first k characters
Suffix(s, k) == SubSeq(s, k + 1, Len(s))

\* C5: a Move of n rewrites the nodes that were descendants of n before the
\* move: afterwards each has n's new path as prefix, followed by its unchanged
\* relative suffix, and its depth is shifted by the same delta as n's.
C5_MoveRewritesDescendants ==
    [][\A n \in NodeIds :
          MoveStep(n) =>
              \A d \in Descendants(Table, n) \cap Live(Table) :
                  /\ StartsWith(Table'[d].path, Table'[n].path)
                  /\ Suffix(Table'[d].path, Len(Table'[n].path))
                        = Suffix(Table[d].path, Len(Table[n].path))
                  /\ Table'[d].depth - Table[d].depth = Table'[n].depth - Table[n].depth]_vars

\* C6: a successful Move of n leaves parent_id, depth and path of every node
\* that is neither n nor a descendant of n unchanged.
C6_MoveFrame ==
    [][\A n \in NodeIds :
          MoveStep(n) =>
              \A m \in DOMAIN Table \ ({n} \cup Descendants(Table, n)) :
                  TreeFields(Table'[m]) = TreeFields(Table[m])]_vars

\* C7: a Delete of a node that has a non-deleted child, or a positive count of
\* attached posts, fails and leaves the node's is_deleted false.
C7_DeleteBlocked ==
    [][\A n \in NodeIds :
          (/\ last'.op \in DeleteOps
           /\ last'.id = n
           /\ n \in Live(Table)
           /\ \/ \E c \in Live(Table) : Table[c].parent_id = n
              \/ svc = "category" /\ categories[n].post_count > 0)
          => (last'.status # "ok" /\ ~Table'[n].is_deleted)]_vars

\* C8 as claimed: a successful soft Delete of n leaves every other node,
\* the descendants of n included, as it was.
C8_DeleteTouchesOnlyNode ==
    [][\A n \in NodeIds :
          DeleteStep(n) => \A m \in DOMAIN Table \ {n} : Table'[m] = Table[m]]_vars

\* C8 amended: a successful delete_category of n sets is_deleted of n and
\* changes nothing else; a successful delete_menu of n sets is_deleted and
\* clears is_active on n and on the non-deleted menus of the tenant whose stored
\* path starts with n's stored path and a "/", and changes nothing else.
C8_DeleteFrame ==
    [][\A n \in NodeIds :
          DeleteStep(n) =>
              /\ svc = "category" =>
                    categories' = [categories EXCEPT ![n].is_deleted = TRUE]
              /\ svc = "menu" =>
                    \A m \in DOMAIN menus :
                        menus'[m] =
                            IF \/ m = n
                               \/ /\ menus[m].tenant_id = menus[n].tenant_id
                                  /\ ~menus[m].is_deleted
                                  /\ StartsWith(menus[m].path, menus[n].path \o <<"/">>)
                            THEN [menus[m] EXCEPT !.is_deleted = TRUE, !.is_active = FALSE]
                            ELSE menus[m]]_vars

\* a delete_menu that soft-deleted the menu together with other rows
C8_Witness ==
    /\ last.op = "delete_menu"
    /\ last.status = "ok"
    /\ Cardinality(last.changed) >= 2

\* C9: after delete_menu(m) succeeds, m and every menu that has m on its
\* parent_id chain are soft-deleted and inactive.
C9_DeleteMenuCoversSubtree ==
    (last.op = "delete_menu" /\ last.status = "ok") =>
        \A x \in {last.id} \cup Descendants(menus, last.id) :
            menus[x].is_deleted /\ ~menus[x].is_active

\* C10: a Move of n whose new parent is n itself or a descendant of n is
\* rejected as an invalid operation and changes no parent_id, depth or path.
C10_CycleMoveRejected ==
    [][\A n \in NodeIds, p \in NodeIds :
          (/\ last'.op \in MoveOps
           /\ last'.id = n
           /\ last'.arg = p
           /\ n \in Live(Table)
           /\ p \in Live(Table)
           /\ (p = n \/ p \in Descendants(Table, n)))
          => /\ last'.status = "invalid"
             /\ \A m \in DOMAIN Table : TreeFields(Table'[m]) = TreeFields(Table[m])]_vars

\* the scope of a row: the board of a category, tenant and menu type of a menu
Scope(row) == IF svc = "menu" THEN <<row.tenant_id, row.menu_type>> ELSE <<row.board_id>>

CodeOf(row) == IF svc = "menu" THEN row.menu_code ELSE row.category_code

\* C4: no two non-deleted nodes of one scope carry the same code, also when
\* two create calls with the same code run concurrently.
C4_CodeUniqueInScope ==
    \A i, j \in Live(Table) :
        (i # j /\ Scope(Table[i]) = Scope(Table[j])) => CodeOf(Table[i]) # CodeOf(Table[j])

\* two create_category calls with one code passed their checks together, and
\* the unique constraint rejected the one that inserted second
C4_Witness ==
    /\ last.op = "create_category"
    /\ last.status = "constraint"
    /\ \A i \in DOMAIN categories : ~categories[i].is_deleted

\* a non-deleted row of the scope carries the code
CodeInUse(db, scope, code) ==
    \E i \in Live(db) : Scope(db[i]) = scope /\ CodeOf(db[i]) = code

\* the parent argument of a create call passes the parent checks of the call
MenuParentAccepted(db, tenant_id, parent_id) ==
    \/ parent_id = None
    \/ /\ validate_parent_exists(db, parent_id, tenant_id) # None
       /\ db[parent_id].depth < MaxParentDepth

CodeFreed(db, scope, code) ==
    /\ \E i \in DOMAIN db \ Live(db) : Scope(db[i]) = scope /\ CodeOf(db[i]) = code
    /\ \A i \in Live(db) : CodeOf(db[i]) # code

\* C12: once a node has been soft-deleted, a later create of a root in the
\* same scope with the deleted node's code succeeds.
C12_DeletedCodeReusable ==
    [][/\ \A t \in TenantIds, c \in Codes, ty \in MenuTypes :
             (/\ CreateMenu(t, [MenuCreateData(None, c) EXCEPT !.menu_type = ty])
              /\ CodeFreed(menus, <<t, ty>>, c))
             => last'.status = "ok"
       /\ \A slot \in 1..MaxInflight :
             (/\ FinishCreateCategory(slot)
              /\ inflight[slot].req.parent_id = None
              /\ CodeFreed(categories, <<inflight[slot].req.board_id>>,
                           inflight[slot].req.category_code))
             => last'.status = "ok"]_vars

CreateOps == {"create_menu", "create_category"}

\* C13: a successful create returns a node whose parent_id is the parent
\* given; without a parent its depth is 0 and its path holds its own id alone,
\* with a parent its depth is the parent's depth plus one and its path is the
\* parent's path extended by its own id; no committed row holds the
\* placeholder path of the insert.
C13_CreateResult ==
    [][/\ \A n \in NodeIds :
             (last'.op \in CreateOps /\ last'.status = "ok" /\ last'.id = n)
             => LET row    == Table'[n]
                    parent == last'.arg
                IN  /\ n = Len(Table) + 1
                    /\ row.parent_id = parent
                    /\ IF parent = None
                       THEN /\ row.depth = 0
                            /\ DecodePath(row.path) = <<n>>
                       ELSE /\ parent \in Live(Table)
                            /\ row.depth = Table[parent].depth + 1
                            /\ StartsWith(row.path, Table[parent].path)
                            /\ DecodePath(Suffix(row.path, Len(Table[parent].path))) = <<n>>
       /\ \A i \in DOMAIN Table' : Table'[i].path # <<>>]_vars

\* a create under a parent that is not a root succeeded
C13_Witness ==
    /\ last.op \in CreateOps
    /\ last.status = "ok"
    /\ last.arg \in DOMAIN Table
    /\ Table[last.arg].parent_id # None
    /\ Table[last.id].depth = Table[last.arg].depth + 1

\* this step is a create call under the non-deleted node p of the caller's
\* tenant (menus) or board (categories) whose depth is at the ceiling or above
CreateAtCeiling(p) ==
    /\ last'.op \in CreateOps
    /\ last'.arg = p
    /\ p \in Live(Table)
    /\ Table[p].depth >= MaxParentDepth

\* C14 as claimed: a create under a parent whose depth is at the ceiling is
\* rejected with the depth error and adds no node, for menus and categories.
C14_DepthCeilingBoth ==
    [][\A p \in 1..MaxChain :
          CreateAtCeiling(p) => (last'.status = "depth_exceeded" /\ Table' = Table)]_vars

\* C14 amended: create_menu under a parent of depth 4 or more is rejected with
\* the depth error and adds no node; create_category has no ceiling and adds
\* the node one level below its parent.
C14_DepthCeilingMenu ==
    [][\A p \in 1..MaxChain :
          CreateAtCeiling(p) =>
              /\ svc = "menu" => (last'.status = "depth_exceeded" /\ menus' = menus)
              /\ svc = "category" =>
                    /\ last'.status = "ok"
                    /\ Len(categories') = Len(categories) + 1
                    /\ categories'[Len(categories')].depth = categories[p].depth + 1]_vars

\* a create_menu under a menu on the fifth level was refused
C14_Witness ==
    /\ last.op = "create_menu"
    /\ last.status = "depth_exceeded"
    /\ last.arg \in DOMAIN menus
    /\ menus[last.arg].depth = MaxParentDepth

\* C15: a reorder_categories of n with n's current parent changes the sort
\* order of n and nothing else, and a reorder_menus changes the display order
\* of the menus of its items and nothing else: parent_id, depth and path stay,
\* and no sibling is renumbered.
C15_ReorderOnlySortOrder ==
    [][/\ \A n \in NodeIds :
             (/\ last'.op = "reorder_categories"
              /\ last'.id = n
              /\ CategoryLookup(categories, n, 1) # None
              /\ last'.arg = categories[n].parent_id)
             => /\ last'.status = "ok"
                /\ categories' =
                       [categories EXCEPT ![n].sort_order = categories'[n].sort_order]
       /\ (last'.op = "reorder_menus" /\ last'.status = "ok")
             => \A m \in DOMAIN menus :
                   menus'[m] = IF m \in ListedMenus(last'.arg)
                               THEN [menus[m] EXCEPT
                                        !.display_order = menus'[m].display_order]
                               ELSE menus[m]]_vars

\* a reorder_menus changed a child menu that shares its display order with a
\* sibling
C15_Witness ==
    /\ last.op = "reorder_menus"
    /\ last.status = "ok"
    /\ \E n \in last.changed, m \in Live(menus) \ last.changed :
          /\ menus[n].parent_id # None
          /\ menus[m].parent_id = menus[n].parent_id
          /\ menus[m].display_order = menus[n].display_order

UpdateOps == {"update_menu", "update_category"}

\* every node keeps its parent_id, depth and path in this step
TreeFieldsKept ==
    \A m \in DOMAIN Table : TreeFields(Table'[m]) = TreeFields(Table[m])

SerialReorder(db, a, b) ==
    reorder_categories(reorder_categories(db, a, 1).db, b, 1).db

\* the subtrees of the categories the two requests move share a node
Overlapping(db, a, b) ==
    \/ a.category_id = b.category_id
    \/ a.category_id \in Descendants(db, b.category_id)
    \/ b.category_id \in Descendants(db, a.category_id)

\* C17: when two reorder_categories requests that move overlapping subtrees
\* have read the same committed rows and both commit, the table after the
\* second commit is the table one of the two serial orders produces, without
\* a parent cycle and with every path spelling its parent chain.
C17_ConcurrentMovesSerialized ==
    [][\A slot \in 1..MaxInflight :
          (/\ inflight[slot] # Idle
           /\ inflight[slot].state = "moving"
           /\ inflight'[slot] = Idle
           /\ Len(inflight[slot].seen) = 1
           /\ inflight[slot].seen[1].base = inflight[slot].base
           /\ Overlapping(inflight[slot].base, inflight[slot].seen[1].req,
                          inflight[slot].req))
          => LET base   == inflight[slot].base
                 first  == inflight[slot].seen[1].req
                 second == inflight[slot].req
             IN  /\ categories' \in {SerialReorder(base, first, second),
                                     SerialReorder(base, second, first)}
                 /\ \A n \in DOMAIN categories' : ~IsDescendant(categories', n, n)
                 /\ \A n \in Live(categories') :
                       DecodePath(categories'[n].path) = ParentChain(categories', n)]_vars

MutationOps == CreateOps \cup MoveOps \cup DeleteOps \cup {"reorder_menus"}

\* C18: a create, move, reorder, update or delete call that ends in an error,
\* be it a validation error or a storage failure at any step of the call,
\* leaves the committed table as it was before the call.
C18_ErrorLeavesTable ==
    [][(last'.op \in MutationOps /\ last'.status # "ok") => Table' = Table]_vars

\* C19: a reader of the committed rows never sees a move half done: when a
\* move of n is committed, the path (the depth) of every non-deleted descendant
\* of n is rewritten with it if and only if the path (the depth) of n is.
C19_ReaderSeesWholeMove ==
    [][\A n \in NodeIds :
          MoveStep(n) =>
              \A d \in Descendants(Table, n) \cap Live(Table) :
                  /\ (Table'[d].path # Table[d].path) <=> (Table'[n].path # Table[n].path)
                  /\ (Table'[d].depth # Table[d].depth)
                        <=> (Table'[n].depth # Table[n].depth)]_vars

\* tenant and board of a category, tenant and menu type of a menu
TenantScope(row) ==
    IF svc = "menu" THEN <<row.tenant_id, row.menu_type>>
    ELSE <<row.tenant_id, row.board_id>>

\* C20: the parent of every node that has one is a node of the same scope
\* (tenant and board, tenant and menu type); no create or move puts a node
\* under a parent of another scope.
C20_ParentInScope ==
    \A n \in DOMAIN Table :
        Table[n].parent_id # None =>
            /\ Table[n].parent_id \in DOMAIN Table
            /\ TenantScope(Table[Table[n].parent_id]) = TenantScope(Table[n])

\* no non-deleted row of the tenant has the id
Gone(db, n, tenant_id) ==
    \/ n \notin DOMAIN db
    \/ db[n].tenant_id # tenant_id
    \/ db[n].is_deleted

\* the call of this step failed with the not-found error and wrote nothing
Refused == last'.status = "not_found" /\ Table' = Table

\* C21: a move, reorder, update or delete call that names an id which was
\* never given, a row of another tenant or a soft-deleted row fails with the
\* not-found error (HTTP 404 of the menu service, the "not found" ValueError of
\* the category service) and changes no row.
C21_GoneNodeNotFound ==
    [][/\ last'.op = "move_menu" =>
             \A t \in TenantIds, p \in CodeParents :
                 (Gone(menus, last'.id, t) /\ MoveMenu(last'.id, t, MenuMoveData(p)))
                 => Refused
       /\ last'.op = "update_menu" =>
             \A t \in TenantIds, data \in GoneMenuUpdates :
                 (Gone(menus, last'.id, t) /\ UpdateMenu(last'.id, t, data)) => Refused
       /\ last'.op = "delete_menu" =>
             \A t \in TenantIds :
                 (Gone(menus, last'.id, t) /\ DeleteMenu(last'.id, t)) => Refused
       /\ last'.op = "reorder_menus" =>
             \A t \in TenantIds :
                 (/\ \E m \in ListedMenus(last'.arg) : Gone(menus, m, t)
                  /\ ReorderMenus(t, last'.arg))
                 => Refused
       /\ last'.op = "update_category" =>
             \A t \in TenantIds, upd \in GoneCategoryUpdates :
                 (Gone(categories, last'.id, t) /\ UpdateCategory(last'.id, t, upd))
                 => Refused
       /\ last'.op = "reorder_categories" =>
             \A t \in TenantIds, p \in CodeParents :
                 (/\ Gone(categories, last'.id, t)
                  /\ ReorderCategories(CategoryReorderReq(last'.id, p), t))
                 => Refused
       /\ last'.op = "delete_category" =>
             \A t \in TenantIds :
                 (Gone(categories, last'.id, t) /\ DeleteCategory(last'.id, t))
                 => Refused]_vars

\* an update_category that named a soft-deleted category was refused
C21_Witness ==
    /\ last.op = "update_category"
    /\ last.status = "not_found"
    /\ last.id \in DOMAIN categories
    /\ categories[last.id].is_deleted

\* C22: get_category_breadcrumb returns for every stored table, also when the
\* parent_id links form a cycle, and follows at most as many parent links as
\* the depth of the category it starts from.
C22_BreadcrumbTerminates ==
    (last.op = "get_category_breadcrumb" /\ last.id \in DOMAIN categories) =>
        /\ last.status = "ok"
        /\ Len(last.arg) - 1 <= categories[last.id].depth

TreeOps == {"get_categories_tree", "get_menu_tree"}

\* sort_order of a category, display_order of a menu
SortOrderOf(row) == IF svc = "menu" THEN row.display_order ELSE row.sort_order

\* the list is in strictly ascending order of (sort order, id)
Ascending(db, level) ==
    \A i, j \in 1..Len(level) :
        i < j => \/ SortOrderOf(db[level[i]]) < SortOrderOf(db[level[j]])
                 \/ /\ SortOrderOf(db[level[i]]) = SortOrderOf(db[level[j]])
                    /\ level[i] < level[j]

\* the nodes of a returned forest, in pre-order
ForestNodes(forest) == PreOrder(forest.children, forest.roots)

\* C23: at every level of the forest a tree query returns (the roots, and the
\* children of every node of the forest) the nodes are in ascending order of
\* (sort order, id).
C23_SiblingsOrdered ==
    last.op \in TreeOps =>
        LET forest == last.arg.result
            nodes  == ForestNodes(forest)
        IN  /\ Ascending(Table, forest.roots)
            /\ \A k \in 1..Len(nodes) : Ascending(Table, forest.children[nodes[k]])

\* C24: the pre-order flattening of the forest of get_categories_tree is the
\* list get_categories_flat returns for the same table and the same
\* include_inactive setting.
C24_TreeFlattensToFlat ==
    [][(/\ last.op = "get_categories_tree"
        /\ last'.op = "get_categories_flat"
        /\ last'.arg.include_inactive = last.arg.include_inactive)
       => ForestNodes(last.arg.result) = last'.arg.result]_vars

\* the rows fetched by the tree query of the last call (the queries are made
\* for tenant 1: board 1, user menus)
TreeFetched ==
    IF svc = "menu" THEN MenuTreeFetched(menus, 1, "user")
    ELSE CategoryFetched(categories, 1, 1, last.arg.include_inactive)

\* C29: every row fetched by a tree query is in the returned forest exactly
\* once, also a row whose parent is inactive or was not fetched.
C29_TreeHoldsEveryNodeOnce ==
    last.op \in TreeOps =>
        LET nodes == ForestNodes(last.arg.result)
        IN  \A n \in TreeFetched :
                Cardinality({k \in 1..Len(nodes) : nodes[k] = n}) = 1

\* no item behind the k-th names the menu of the k-th item again
LastNaming(items, k) ==
    \A j \in 1..Len(items) : j > k => items[j].menu_id # items[k].menu_id

\* C25: reorder_menus is all-or-nothing.  When every item names a non-deleted
\* menu of the tenant the call succeeds, returns one menu per item, and every
\* listed menu ends with the new_order requested for it (the one of the last
\* item naming it when a request names it twice); when an item names a missing
\* or deleted menu the call fails and no display_order changes, also not of
\* the menus listed before that item.
C25_ReorderAllOrNothing ==
    [][last'.op = "reorder_menus" =>
          LET items == last'.arg
          IN  IF \A k \in 1..Len(items) : ~Gone(menus, items[k].menu_id, 1)
              THEN /\ last'.status = "ok"
                   /\ Len(last'.id) = Len(items)
                   /\ \A k \in 1..Len(items) :
                         /\ last'.id[k] = items[k].menu_id
                         /\ LastNaming(items, k) =>
                               menus'[items[k].menu_id].display_order = items[k].new_order
              ELSE /\ last'.status # "ok"
                   /\ \A m \in DOMAIN menus :
                         menus'[m].display_order = menus[m].display_order]_vars

\* a reorder_menus that listed a menu of the tenant and a deleted menu failed
C25_Witness ==
    /\ last.op = "reorder_menus"
    /\ last.status = "not_found"
    /\ \E m \in ListedMenus(last.arg) : m \in Live(menus)
    /\ \E m \in ListedMenus(last.arg) : m \in DOMAIN menus /\ menus[m].is_deleted

\* C26: the count bulk_delete_menus returns is the number of menus whose
\* is_deleted went from false to true during the call.
C26_BulkDeleteCount ==
    [][last'.op = "bulk_delete_menus" =>
          last'.arg = Cardinality({m \in DOMAIN menus :
                                      ~menus[m].is_deleted /\ menus'[m].is_deleted})]_vars

\* C27: every non-deleted node that has a parent has a non-deleted parent.
C27_LiveParent ==
    \A n \in Live(Table) :
        Table[n].parent_id # None => Table[n].parent_id \in Live(Table)

\* C28: every non-deleted menu lies at most 4 parent_id hops below its root
\* and has stored depth <= 4, also after a subtree was moved under a deeper
\* parent.
C28_MenuDepthBounded ==
    svc = "menu" =>
        \A n \in Live(menus) :
            /\ Len(ParentChain(menus, n)) - 1 <= MaxParentDepth
            /\ menus[n].depth <= MaxParentDepth

\* C30: validate_no_circular_reference rejects the move of menu m under the
\* new parent p exactly when m is p or m lies on the parent_id chain of p,
\* whether or not a soft-deleted menu sits on that chain between p and m,
\* and accepts every other move.  Stated for the moves that reach past the
\* lookups of move_menu: m and p are non-deleted menus.
C30_CircularCheckExact ==
    svc = "menu" =>
        \A m \in Live(menus), p \in Live(menus) :
            validate_no_circular_reference(menus, m, p)
                = ~(m = p \/ IsDescendant(menus, p, m))

====
